---- MODULE Spec2Model ----
(***************************************************************************)
(* Model of the ecs-cli configuration store (package config):             *)
(* YamlReadWriter.GetConfigs, SaveProfile, SaveCluster, SetDefaultProfile, *)
(* SetDefaultCluster and saveToFile, over a filesystem holding the profile *)
(* document (profile.yml), the cluster document (config.yml) and the       *)
(* legacy ini file.                                                        *)
(***************************************************************************)
EXTENDS Integers, FiniteSets, Sequences, TLC

(***************************************************************************)
(* Bounds and input universes                                              *)
(***************************************************************************)
\* number of write-path operations in one run
MaxOps == 2

\* the names a caller can pass: a command-line flag left unset is ""
Names == {"", "a", "b"}

\* credential pairs <<access key, secret key>> passed to SaveProfile;
\* "7" is a string that YAML would read as an integer if written plainly
ProfileInputs == {<<"AK1", "SK">>, <<"7", "SK">>}

\* <<cluster, region>> pairs passed to SaveCluster
ClusterInputs == {<<"c1", "r1">>, <<"c2", "r1">>}

(***************************************************************************)
(* Program constants                                                       *)
(***************************************************************************)
configFileMode == 384  \* os.FileMode(0600)

awsAccessKey == "aws_access_key_id"

awsSecretKey == "aws_secret_access_key"

clusterKey == "cluster"

regionKey == "region"

composeProjectNamePrefixKey == "compose-project-name-prefix"

composeServiceNamePrefixKey == "compose-service-name-prefix"

cfnStackNamePrefixKey == "cfn-stack-name-prefix"

(***************************************************************************)
(* Go values held in a map[interface{}]interface{}                         *)
(***************************************************************************)
GoNil == [t |-> "nil"]

GoString(s) == [t |-> "string", v |-> s]

GoInt(s) == [t |-> "int", v |-> s]

GoBool(s) == [t |-> "bool", v |-> s]

GoMap(f) == [t |-> "map", m |-> f]

\* make(map[interface{}]interface{})
EmptyMap == [k \in {} |-> GoNil]

\* m[key] for a string key: a missing key yields the nil interface
Get(m, key) == IF GoString(key) \in DOMAIN m THEN m[GoString(key)] ELSE GoNil

\* _, ok := m[key]
Has(m, key) == GoString(key) \in DOMAIN m

\* m[key] = val
Put(m, key, val) ==
  [k \in DOMAIN m \cup {GoString(key)} |-> IF k = GoString(key) THEN val ELSE m[k]]

\* v.(string) in the comma-ok form: the zero value "" when the assertion fails
IsString(val) == val.t = "string"

StringOrZero(val) == IF val.t = "string" THEN val.v ELSE ""

(***************************************************************************)
(* YAML text: a file's content is a tree of nodes.  A scalar carries the   *)
(* style it is written in; yaml.Unmarshal resolves a plain scalar by its   *)
(* text and yaml.Marshal quotes a string that would resolve otherwise.     *)
(***************************************************************************)
Scalar(style, text) == [k |-> "scalar", style |-> style, text |-> text]

Mapping(f) == [k |-> "map", m |-> f]

\* a zero-length file
EmptyText == [k |-> "empty"]

\* bytes that are not YAML
GarbageText == [k |-> "garbage"]

NullTexts == {"", "~", "null"}

BoolTexts == {"true", "false"}

IntTexts == {"0", "7"}

\* the tag a plain scalar resolves to
ResolveTag(text) ==
  IF text \in NullTexts THEN "null"
  ELSE IF text \in BoolTexts THEN "bool"
  ELSE IF text \in IntTexts THEN "int"
  ELSE "str"

DecodeScalar(n) ==
  IF n.style = "quoted" THEN GoString(n.text)
  ELSE CASE ResolveTag(n.text) = "null" -> GoNil
         [] ResolveTag(n.text) = "bool" -> GoBool(n.text)
         [] ResolveTag(n.text) = "int" -> GoInt(n.text)
         [] OTHER -> GoString(n.text)

\* a string is written plainly only when it reads back as a string
EncodeString_NeverQuoted(s) == Scalar("plain", s)

EncodeString(s) ==
  Scalar(IF ResolveTag(s) = "str" THEN "plain" ELSE "quoted", s)

EncodeScalar(val) ==
  CASE val.t = "string" -> EncodeString(val.v)
    [] val.t = "nil" -> Scalar("plain", "null")
    [] OTHER -> Scalar("plain", val.v)

RECURSIVE Decode(_)
Decode(n) ==
  IF n.k = "scalar" THEN DecodeScalar(n)
  ELSE GoMap([key \in {DecodeScalar(kn) : kn \in DOMAIN n.m} |->
                Decode(n.m[CHOOSE kn \in DOMAIN n.m : DecodeScalar(kn) = key])])

RECURSIVE Encode(_)
Encode(val) ==
  IF val.t = "map"
    THEN Mapping([kn \in {EncodeScalar(key) : key \in DOMAIN val.m} |->
                    Encode(val.m[CHOOSE key \in DOMAIN val.m : EncodeScalar(key) = kn])])
    ELSE EncodeScalar(val)

\* yaml.Unmarshal(dat, &m) into an empty map[interface{}]interface{}
Unmarshal(text) ==
  CASE text.k = "empty" -> [err |-> FALSE, m |-> EmptyMap]
    [] text.k = "map" -> [err |-> FALSE, m |-> Decode(text).m]
    [] OTHER -> [err |-> TRUE, m |-> EmptyMap]

\* yaml.Marshal(config)
Marshal(m) == Encode(GoMap(m))

(***************************************************************************)
(* The filesystem                                                          *)
(***************************************************************************)
VARIABLES
  profileFile,    \* profile.yml: [exists, mode, text]
  clusterFile,    \* config.yml:  [exists, mode, text]
  iniFile,        \* the legacy ini file: [exists, ok]
  last,           \* the operation that ran last, its arguments and what it returned
  savedProfiles,  \* history: per name, the values of the latest SaveProfile that
                  \* rewrote the document, while every rewrite since has succeeded
  savedClusters,  \* the same for SaveCluster
  nOps,           \* the number of write-path operations run so far
  input,          \* what the task-parameter code is given to parse or convert
  output,         \* what it handed back
  proc            \* the processes that save concurrently: where each one is in
                  \* SaveProfile and what it holds in memory

vars == <<profileFile, clusterFile, iniFile, last, savedProfiles, savedClusters, nOps,
          input, output, proc>>

File(mode, text) == [exists |-> TRUE, mode |-> mode, text |-> text]

NoFile == [exists |-> FALSE, mode |-> 0, text |-> EmptyText]

\* the owner-read bit (0400) of a mode
OwnerCanRead(mode) == (mode \div 256) % 2 = 1

\* a missing file reads as an empty one
ReadFile_MissingIsEmpty(f) ==
  IF f.exists /\ ~OwnerCanRead(f.mode) THEN [err |-> TRUE, text |-> EmptyText]
  ELSE [err |-> FALSE, text |-> f.text]

\* ioutil.ReadFile(path)
ReadFile(f) ==
  IF f.exists /\ OwnerCanRead(f.mode) THEN [err |-> FALSE, text |-> f.text]
  ELSE [err |-> TRUE, text |-> EmptyText]

(***************************************************************************)
(* Resolution: GetConfigs                                                  *)
(***************************************************************************)
\* &CliConfig{SectionKeys: new(SectionKeys)}
NewCliConfig ==
  [AwsAccessKey |-> "", AwsSecretKey |-> "", Cluster |-> "", Region |-> "",
   ComposeProjectNamePrefix |-> "", ComposeServiceNamePrefix |-> "",
   CFNStackNamePrefix |-> ""]

\* what GetConfigs hands back: outcome "ok" is a nil error, "error" a non-nil
\* error, "panic" a run-time panic; hasCfg tells a nil *CliConfig from a
\* non-nil one; legacy records that the ini reader produced the result
Result(outcome, hasCfg, cfg, cmap, legacy) ==
  [outcome |-> outcome, hasCfg |-> hasCfg, cfg |-> cfg, cmap |-> cmap,
   legacy |-> legacy]

\* return nil, nil, err
ErrorResult == Result("error", FALSE, NewCliConfig, EmptyMap, FALSE)

\* the values the legacy ini file holds
LegacyConfig ==
  [NewCliConfig EXCEPT !.AwsAccessKey = "iniAK", !.AwsSecretKey = "iniSK",
                       !.Cluster = "iniCluster", !.Region = "iniRegion"]

LegacyMap ==
  Put(Put(Put(Put(EmptyMap, awsAccessKey, GoString("iniAK")),
              awsSecretKey, GoString("iniSK")),
          clusterKey, GoString("iniCluster")),
      regionKey, GoString("iniRegion"))

\* NewIniReadWriter(dest) followed by iniReadWriter.GetConfig()
IniGetConfig(ini) ==
  IF ini.ok THEN [err |-> FALSE, cfg |-> LegacyConfig, cmap |-> LegacyMap]
  ELSE [err |-> TRUE, cfg |-> NewCliConfig, cmap |-> EmptyMap]

\* the ini file alone decides
UseLegacy_IniOnly(iniExists, yamlExists) == iniExists

\* err == nil && yamlErr != nil, yamlErr being os.Stat(clusterPath)'s
UseLegacy(iniExists, yamlExists) == iniExists /\ ~yamlExists

\* status, configMap and cliConfig as a process*Map call leaves them
Step(status, cmap, cfg) == [status |-> status, cmap |-> cmap, cfg |-> cfg]

\* the default pointer is never consulted: the empty selector is looked up as is
profileKeyOf_NoDefault(profileKey, profileMap) == [ok |-> TRUE, key |-> profileKey]

\* if profileKey == "" { profileKey, ok = profileMap["default"].(string) }
profileKeyOf(profileKey, profileMap) ==
  IF profileKey = ""
    THEN [ok |-> IsString(Get(profileMap, "default")),
          key |-> StringOrZero(Get(profileMap, "default"))]
    ELSE [ok |-> TRUE, key |-> profileKey]

processProfileMap(profileKey, profileMap, configMap, cliConfig) ==
  LET sel == profileKeyOf(profileKey, profileMap)
      profiles == Get(profileMap, "ecs_profiles")
  IN
  IF ~sel.ok THEN Step("error", configMap, cliConfig)
  \* profileMap["ecs_profiles"].(map[interface{}]interface{}): no comma-ok
  ELSE IF profiles.t # "map" THEN Step("panic", configMap, cliConfig)
  ELSE IF Get(profiles.m, sel.key).t # "map" THEN Step("error", configMap, cliConfig)
  ELSE
    LET profile == Get(profiles.m, sel.key).m
        cm == Put(Put(configMap, awsAccessKey, Get(profile, awsAccessKey)),
                  awsSecretKey, Get(profile, awsSecretKey))
        c1 == [cliConfig EXCEPT !.AwsAccessKey = StringOrZero(Get(profile, awsAccessKey))]
        c2 == [c1 EXCEPT !.AwsSecretKey = StringOrZero(Get(profile, awsSecretKey))]
    IN
    IF ~IsString(Get(profile, awsAccessKey)) THEN Step("error", cm, c1)
    ELSE IF ~IsString(Get(profile, awsSecretKey)) THEN Step("error", cm, c2)
    ELSE Step("ok", cm, c2)

\* if clusterConfigKey == "" { clusterConfigKey, ok = clusterMap["default"].(string) }
clusterKeyOf(clusterConfigKey, clusterMap) ==
  IF clusterConfigKey = ""
    THEN [ok |-> IsString(Get(clusterMap, "default")),
          key |-> StringOrZero(Get(clusterMap, "default"))]
    ELSE [ok |-> TRUE, key |-> clusterConfigKey]

\* one "if _, ok := cluster[key]; ok { ... }" block of processClusterMap
\* applied to the step so far; field names the CliConfig field it assigns
Prefix(st, cluster, key, field) ==
  IF st.status # "ok" \/ ~Has(cluster, key) THEN st
  ELSE Step(IF IsString(Get(cluster, key)) THEN "ok" ELSE "error",
            Put(st.cmap, key, Get(cluster, key)),
            [st.cfg EXCEPT ![field] = StringOrZero(Get(cluster, key))])

processClusterMap(clusterConfigKey, clusterMap, configMap, cliConfig) ==
  LET sel == clusterKeyOf(clusterConfigKey, clusterMap)
      clusters == Get(clusterMap, "clusters")
  IN
  IF ~sel.ok THEN Step("error", configMap, cliConfig)
  \* clusterMap["clusters"].(map[interface{}]interface{}): no comma-ok
  ELSE IF clusters.t # "map" THEN Step("panic", configMap, cliConfig)
  ELSE IF Get(clusters.m, sel.key).t # "map" THEN Step("error", configMap, cliConfig)
  ELSE
    LET cluster == Get(clusters.m, sel.key).m
        cm == Put(Put(configMap, clusterKey, Get(cluster, clusterKey)),
                  regionKey, Get(cluster, regionKey))
        c1 == [cliConfig EXCEPT !.Cluster = StringOrZero(Get(cluster, clusterKey))]
        c2 == [c1 EXCEPT !.Region = StringOrZero(Get(cluster, regionKey))]
    IN
    IF ~IsString(Get(cluster, clusterKey)) THEN Step("error", cm, c1)
    ELSE IF ~IsString(Get(cluster, regionKey)) THEN Step("error", cm, c2)
    ELSE Prefix(Prefix(Prefix(Step("ok", cm, c2),
                              cluster, composeProjectNamePrefixKey, "ComposeProjectNamePrefix"),
                       cluster, composeServiceNamePrefixKey, "ComposeServiceNamePrefix"),
                cluster, cfnStackNamePrefixKey, "CFNStackNamePrefix")

\* GetConfigs(clusterConfig, profileConfig) on the files pf (profile), cf (cluster), ini
GetConfigs(clusterConfig, profileConfig, pf, cf, ini) ==
  IF UseLegacy(ini.exists, cf.exists)
    THEN LET r == IniGetConfig(ini) IN
         IF r.err THEN Result("error", FALSE, NewCliConfig, EmptyMap, TRUE)
         ELSE Result("ok", TRUE, r.cfg, r.cmap, TRUE)
  ELSE
    LET cdat == ReadFile(cf)
        cm == Unmarshal(cdat.text)
        pdat == ReadFile(pf)
        pm == Unmarshal(pdat.text)
    IN
    IF cdat.err \/ cm.err \/ pdat.err \/ pm.err THEN ErrorResult
    ELSE
      LET p == processProfileMap(profileConfig, pm.m, EmptyMap, NewCliConfig)
          c == processClusterMap(clusterConfig, cm.m, p.cmap, p.cfg)
      IN
      \* the errors the two calls return are dropped
      IF p.status = "panic" THEN Result("panic", FALSE, NewCliConfig, EmptyMap, FALSE)
      ELSE IF c.status = "panic" THEN Result("panic", FALSE, NewCliConfig, EmptyMap, FALSE)
      ELSE Result("ok", TRUE, c.cfg, c.cmap, FALSE)

(***************************************************************************)
(* The write path                                                          *)
(***************************************************************************)
\* what can go wrong in saveToFile: os.MkdirAll, os.Chmod, and ioutil.WriteFile
\* either when it opens the file or when it writes the bytes
Faults == {"none", "mkdir", "chmod", "open", "write"}

\* the document is rewritten with the permissions it has
saveToFile_NoChmod(f, config, fault) ==
  CASE fault \in {"mkdir", "chmod", "open"} -> [err |-> TRUE, wrote |-> FALSE, file |-> f]
    [] fault = "write" -> [err |-> TRUE, wrote |-> FALSE, file |-> File(f.mode, EmptyText)]
    [] OTHER -> [err |-> FALSE, wrote |-> TRUE, file |-> File(f.mode, Marshal(config))]

\* saveToFile(path, config) on the file f at path; wrote tells whether the new
\* content reached the file
saveToFile(f, config, fault) ==
  IF fault = "mkdir" THEN [err |-> TRUE, wrote |-> FALSE, file |-> f]
  ELSE IF f.exists /\ fault = "chmod" THEN [err |-> TRUE, wrote |-> FALSE, file |-> f]
  ELSE
    LET g == IF f.exists THEN [f EXCEPT !.mode = configFileMode] ELSE f IN
    CASE fault = "open" -> [err |-> TRUE, wrote |-> FALSE, file |-> g]
      \* the file was opened with O_CREATE|O_TRUNC before the write failed
      [] fault = "write" ->
           [err |-> TRUE, wrote |-> FALSE,
            file |-> File(IF g.exists THEN g.mode ELSE configFileMode, EmptyText)]
      [] OTHER ->
           [err |-> FALSE, wrote |-> TRUE,
            file |-> File(IF g.exists THEN g.mode ELSE configFileMode, Marshal(config))]

\* what a write-path operation hands back: err is the error it returns,
\* saveErr the error saveToFile returned to it, file the document afterwards
Done(err, saveErr, wrote, file) ==
  [err |-> err, saveErr |-> saveErr, wrote |-> wrote, file |-> file]

\* a missing entry mapping is taken for an empty one
AssertMap_AbsentIsEmpty(val) ==
  IF val.t = "map" THEN [ok |-> TRUE, m |-> val.m]
  ELSE [ok |-> val.t = "nil", m |-> EmptyMap]

\* val.(map[interface{}]interface{}) in the comma-ok form
AssertMap(val) ==
  IF val.t = "map" THEN [ok |-> TRUE, m |-> val.m] ELSE [ok |-> FALSE, m |-> EmptyMap]

\* every save moves the default pointer
IsFirst_Always(entries) == TRUE

\* no save moves the default pointer
IsFirst_Never(entries) == FALSE

\* len(profiles) == 0, len(clusters) == 0
IsFirst(entries) == Cardinality(DOMAIN entries) = 0

\* the map SaveProfile stores under the profile's name
NewProfile(ak, sk) ==
  GoMap(Put(Put(EmptyMap, awsAccessKey, GoString(ak)), awsSecretKey, GoString(sk)))

\* the map SaveCluster stores under the cluster configuration's name
NewCluster(cluster, region) ==
  GoMap(Put(Put(EmptyMap, clusterKey, GoString(cluster)), regionKey, GoString(region)))

SaveProfile(name, ak, sk, f, fault) ==
  LET dat == ReadFile(f)
      pm == Unmarshal(dat.text)
      profiles == AssertMap(Get(pm.m, "ecs_profiles"))
  IN
  IF dat.err \/ pm.err \/ ~profiles.ok THEN Done(TRUE, FALSE, FALSE, f)
  ELSE
    LET m1 == IF IsFirst(profiles.m) THEN Put(pm.m, "default", GoString(name)) ELSE pm.m
        m2 == Put(m1, "ecs_profiles", GoMap(Put(profiles.m, name, NewProfile(ak, sk))))
        w == saveToFile(f, m2, fault)
    IN
    \* rdwr.saveToFile(profilePath, profileMap); return nil
    Done(FALSE, w.err, w.wrote, w.file)

SaveCluster(name, cluster, region, f, fault) ==
  LET dat == ReadFile(f)
      cm == Unmarshal(dat.text)
      clusters == AssertMap(Get(cm.m, "clusters"))
  IN
  IF dat.err \/ cm.err \/ ~clusters.ok THEN Done(TRUE, FALSE, FALSE, f)
  ELSE
    LET m1 == IF IsFirst(clusters.m) THEN Put(cm.m, "default", GoString(name)) ELSE cm.m
        m2 == Put(m1, "clusters", GoMap(Put(clusters.m, name, NewCluster(cluster, region))))
        w == saveToFile(f, m2, fault)
    IN
    Done(FALSE, w.err, w.wrote, w.file)

SetDefaultProfile(profile, f, fault) ==
  LET dat == ReadFile(f)
      pm == Unmarshal(dat.text)
  IN
  IF dat.err \/ pm.err THEN Done(TRUE, FALSE, FALSE, f)
  ELSE
    LET w == saveToFile(f, Put(pm.m, "default", GoString(profile)), fault) IN
    Done(FALSE, w.err, w.wrote, w.file)

SetDefaultCluster(cluster, f, fault) ==
  LET dat == ReadFile(f)
      cm == Unmarshal(dat.text)
  IN
  IF dat.err \/ cm.err THEN Done(TRUE, FALSE, FALSE, f)
  ELSE
    LET w == saveToFile(f, Put(cm.m, "default", GoString(cluster)), fault) IN
    Done(FALSE, w.err, w.wrote, w.file)

(***************************************************************************)
(* Documents                                                               *)
(***************************************************************************)
NoEntries == [k \in {} |-> EmptyText]

\* a mapping with one key, written plainly
One(key, node) == [k \in {Scalar("plain", key)} |-> node]

\* a mapping with the one key "" (written quoted: a plain empty key is null)
OneEmptyKey(node) == [k \in {Scalar("quoted", "")} |-> node]

\* the union of two key-to-node functions with disjoint keys
Both(f, g) == [k \in DOMAIN f \cup DOMAIN g |-> IF k \in DOMAIN f THEN f[k] ELSE g[k]]

\* "ecs_profiles: {}": a profile document that holds no entry yet
EmptyProfileDoc == Mapping(One("ecs_profiles", Mapping(NoEntries)))

\* "clusters: {}"
EmptyClusterDoc == Mapping(One("clusters", Mapping(NoEntries)))

\* the documents the store starts from: missing, unreadable (mode 0000), not
\* YAML, zero-length (no entry mapping), and the empty document
InitFiles(emptyDoc) ==
  {NoFile, File(0, emptyDoc), File(420, GarbageText), File(420, EmptyText),
   File(420, emptyDoc)}

NoOp == [op |-> "none"]

\* the configuration store takes no task-parameter document
NotUsed == [k |-> "none"]

\* no process saves concurrently
NoProcs == <<>>

Unsaved == [n \in Names |-> [set |-> FALSE, val |-> <<"", "">>]]

Init ==
  /\ profileFile \in InitFiles(EmptyProfileDoc)
  /\ clusterFile \in InitFiles(EmptyClusterDoc)
  \* the legacy file is still there: saveToFile only warns about it, so the
  \* write path runs the same without it
  /\ iniFile = [exists |-> TRUE, ok |-> TRUE]
  /\ last = NoOp
  /\ savedProfiles = Unsaved
  /\ savedClusters = Unsaved
  /\ nOps = 0
  /\ input = NotUsed
  /\ output = NotUsed
  /\ proc = NoProcs

(***************************************************************************)
(* Actions: one per operation of the ReadWriter interface                  *)
(***************************************************************************)
\* the entries the document at f holds before a save (none when unreadable)
EntriesOf(f, key) ==
  LET dat == ReadFile(f)
      m == Unmarshal(dat.text)
  IN IF dat.err \/ m.err THEN EmptyMap ELSE AssertMap(Get(m.m, key)).m

\* the history after a write-path operation on the file f that handed back d
SavedAfter(saved, d, f, updated) ==
  IF d.wrote THEN updated
  ELSE IF d.file.text # f.text THEN Unsaved
  ELSE saved

\* chmodFailed: saveToFile returned the error of os.Chmod
WriteRecord(op, name, a, b, fault, d, first) ==
  [op |-> op, name |-> name, a |-> a, b |-> b, err |-> d.err,
   saveErr |-> d.saveErr, wrote |-> d.wrote, first |-> first,
   chmodFailed |-> d.saveErr /\ fault = "chmod"]

DoSaveProfile ==
  /\ nOps < MaxOps
  /\ \E name \in Names, in \in ProfileInputs, fault \in Faults :
       \E d \in {SaveProfile(name, in[1], in[2], profileFile, fault)} :
         /\ profileFile' = d.file
         /\ last' = WriteRecord("SaveProfile", name, in[1], in[2], fault, d,
                                DOMAIN EntriesOf(profileFile, "ecs_profiles") = {})
         /\ savedProfiles' = SavedAfter(savedProfiles, d, profileFile,
                               [savedProfiles EXCEPT ![name] = [set |-> TRUE, val |-> in]])
  /\ nOps' = nOps + 1
  /\ UNCHANGED <<clusterFile, iniFile, savedClusters, input, output, proc>>

DoSaveCluster ==
  /\ nOps < MaxOps
  /\ \E name \in Names, in \in ClusterInputs, fault \in Faults :
       \E d \in {SaveCluster(name, in[1], in[2], clusterFile, fault)} :
         /\ clusterFile' = d.file
         /\ last' = WriteRecord("SaveCluster", name, in[1], in[2], fault, d,
                                DOMAIN EntriesOf(clusterFile, "clusters") = {})
         /\ savedClusters' = SavedAfter(savedClusters, d, clusterFile,
                               [savedClusters EXCEPT ![name] = [set |-> TRUE, val |-> in]])
  /\ nOps' = nOps + 1
  /\ UNCHANGED <<profileFile, iniFile, savedProfiles, input, output, proc>>

DoSetDefaultProfile ==
  /\ nOps < MaxOps
  /\ \E name \in Names, fault \in Faults :
       \E d \in {SetDefaultProfile(name, profileFile, fault)} :
         /\ profileFile' = d.file
         /\ last' = WriteRecord("SetDefaultProfile", name, "", "", fault, d, FALSE)
         /\ savedProfiles' = SavedAfter(savedProfiles, d, profileFile, savedProfiles)
  /\ nOps' = nOps + 1
  /\ UNCHANGED <<clusterFile, iniFile, savedClusters, input, output, proc>>

DoSetDefaultCluster ==
  /\ nOps < MaxOps
  /\ \E name \in Names, fault \in Faults :
       \E d \in {SetDefaultCluster(name, clusterFile, fault)} :
         /\ clusterFile' = d.file
         /\ last' = WriteRecord("SetDefaultCluster", name, "", "", fault, d, FALSE)
         /\ savedClusters' = SavedAfter(savedClusters, d, clusterFile, savedClusters)
  /\ nOps' = nOps + 1
  /\ UNCHANGED <<profileFile, iniFile, savedProfiles, input, output, proc>>

Next ==
  \/ DoSaveProfile
  \/ DoSaveCluster
  \/ DoSetDefaultProfile
  \/ DoSetDefaultCluster

Spec == Init /\ [][Next]_vars

(***************************************************************************)
(* Resolution over arbitrary documents: the files are drawn from hand-     *)
(* written documents, well formed or not, and GetConfigs is run on them.   *)
(***************************************************************************)
Plain(text) == Scalar("plain", text)

\* what a "default:" line can hold: a name, the empty string, a number
DefaultNodes == {Plain("a"), Plain("b"), Scalar("quoted", ""), Plain("7")}

\* the top-level mappings built from an optional default and an optional
\* entry mapping
Documents(key, entryMaps) ==
  LET defaults == {NoEntries} \cup {One("default", d) : d \in DefaultNodes}
      entries == {NoEntries} \cup {One(key, Plain("null"))}
                   \cup {One(key, Mapping(e)) : e \in entryMaps}
  IN {Mapping(Both(d, e)) : d \in defaults, e \in entries}

GoodProfile(ak) == Mapping(Both(One(awsAccessKey, Plain(ak)), One(awsSecretKey, Plain("SK"))))

\* entries of a profile document: well formed, not a mapping, a field
\* missing, a field that is not a string
ProfileEntries ==
  {GoodProfile("AK1"), Plain("x"), Mapping(One(awsAccessKey, Plain("AK1"))),
   Mapping(Both(One(awsAccessKey, Plain("7")), One(awsSecretKey, Plain("SK"))))}

ProfileEntryMaps ==
  {NoEntries, Both(One("a", GoodProfile("AK1")), One("b", GoodProfile("AK2"))),
   Both(One("a", GoodProfile("AK1")), OneEmptyKey(GoodProfile("AK0")))}
    \cup {One("a", e) : e \in ProfileEntries}

GoodCluster(c) == Both(One(clusterKey, Plain(c)), One(regionKey, Plain("r1")))

\* entries of a cluster document: well formed with and without prefixes, not
\* a mapping, region missing, cluster not a string, a prefix that is not a string
ClusterEntries ==
  {Mapping(GoodCluster("c1")), Plain("x"), Mapping(One(clusterKey, Plain("c1"))),
   Mapping(Both(One(clusterKey, Plain("7")), One(regionKey, Plain("r1")))),
   Mapping(Both(GoodCluster("c1"), One(composeProjectNamePrefixKey, Plain("p-")))),
   Mapping(Both(GoodCluster("c1"),
                Both(One(composeServiceNamePrefixKey, Plain("7")),
                     One(cfnStackNamePrefixKey, Plain("s-")))))}

ClusterEntryMaps ==
  {NoEntries, Both(One("a", Mapping(GoodCluster("c1"))), One("b", Mapping(GoodCluster("c2")))),
   Both(One("a", Mapping(GoodCluster("c1"))), OneEmptyKey(Mapping(GoodCluster("c0"))))}
    \cup {One("a", e) : e \in ClusterEntries}

ReadFiles(docs) ==
  {NoFile, File(0, EmptyText), File(420, GarbageText), File(420, EmptyText)}
    \cup {File(420, d) : d \in docs}

InitRead ==
  /\ profileFile \in ReadFiles(Documents("ecs_profiles", ProfileEntryMaps))
  /\ clusterFile \in ReadFiles(Documents("clusters", ClusterEntryMaps))
  /\ iniFile \in {[exists |-> FALSE, ok |-> FALSE], [exists |-> TRUE, ok |-> TRUE],
                  [exists |-> TRUE, ok |-> FALSE]}
  /\ last = NoOp
  /\ savedProfiles = Unsaved
  /\ savedClusters = Unsaved
  /\ nOps = 0
  /\ input = NotUsed
  /\ output = NotUsed
  /\ proc = NoProcs

\* a first call that leaves the cluster document behind when it took the
\* legacy path
FilesAfterGetConfigs_Migrates(pf, cf, ini) ==
  [profile |-> pf, ini |-> ini,
   cluster |-> IF UseLegacy(ini.exists, cf.exists)
                 THEN File(configFileMode, Mapping(One("clusters", Mapping(NoEntries))))
                 ELSE cf]

\* the files as a call of GetConfigs leaves them: it calls os.Stat,
\* ioutil.ReadFile, yaml.Unmarshal and the ini reader, and nothing that writes
FilesAfterGetConfigs(pf, cf, ini) == [profile |-> pf, cluster |-> cf, ini |-> ini]

\* the first resolution of a run
DoGetConfigs ==
  /\ last = NoOp
  /\ \E clusterConfig \in Names, profileConfig \in Names :
       last' = [op |-> "GetConfigs", cl |-> clusterConfig, pr |-> profileConfig,
                res |-> GetConfigs(clusterConfig, profileConfig,
                                   profileFile, clusterFile, iniFile)]
  /\ \E fs \in {FilesAfterGetConfigs(profileFile, clusterFile, iniFile)} :
       /\ profileFile' = fs.profile
       /\ clusterFile' = fs.cluster
       /\ iniFile' = fs.ini
  /\ UNCHANGED <<savedProfiles, savedClusters, nOps, input, output, proc>>

NextRead == DoGetConfigs

SpecRead == InitRead /\ [][NextRead]_vars

\* a second resolution right after the first, with the selectors of the
\* first; first keeps what the first call returned
DoGetConfigsAgain ==
  /\ last.op = "GetConfigs"
  /\ last' = [op |-> "GetConfigsAgain", cl |-> last.cl, pr |-> last.pr,
              first |-> last.res,
              res |-> GetConfigs(last.cl, last.pr, profileFile, clusterFile, iniFile)]
  /\ \E fs \in {FilesAfterGetConfigs(profileFile, clusterFile, iniFile)} :
       /\ profileFile' = fs.profile
       /\ clusterFile' = fs.cluster
       /\ iniFile' = fs.ini
  /\ UNCHANGED <<savedProfiles, savedClusters, nOps, input, output, proc>>

NextReadTwice ==
  \/ DoGetConfigs
  \/ DoGetConfigsAgain

SpecReadTwice == InitRead /\ [][NextReadTwice]_vars

(***************************************************************************)
(* Vocabulary of the properties                                            *)
(***************************************************************************)
\* the top-level map of the document at f, as a read of it yields it
Loaded(f) == Unmarshal(ReadFile(f).text)

\* the document at f can be read and parsed
Parses(f) == ~ReadFile(f).err /\ ~Loaded(f).err

\* the document's "default" value (nil when absent)
DefaultOf(f) == Get(Loaded(f).m, "default")

\* the value under the entry-mapping key (nil when absent)
EntryMapOf(f, key) == Get(Loaded(f).m, key)

\* the entry mapping is absent, not a mapping, or holds no entry
HoldsNoEntry(f, key) ==
  EntryMapOf(f, key).t # "map" \/ DOMAIN EntryMapOf(f, key).m = {}

\* the name an entry is looked up under for the selector sel
LookupName(f, sel) == IF sel = "" THEN StringOrZero(DefaultOf(f)) ELSE sel

\* the lookup of sel in the document at f hits a structural mismatch: the
\* default key is absent or not a string, the named entry is absent or not a
\* mapping, or one of the required fields is absent or not a string
Mismatch(f, key, sel, fields) ==
  \/ sel = "" /\ ~IsString(DefaultOf(f))
  \/ EntryMapOf(f, key).t # "map"
  \/ Get(EntryMapOf(f, key).m, LookupName(f, sel)).t # "map"
  \/ \E fld \in fields : ~IsString(Get(Get(EntryMapOf(f, key).m, LookupName(f, sel)).m, fld))

ProfileMismatch(sel) ==
  Mismatch(profileFile, "ecs_profiles", sel, {awsAccessKey, awsSecretKey})

ClusterMismatch(sel) ==
  \/ Mismatch(clusterFile, "clusters", sel, {clusterKey, regionKey})
  \/ \E fld \in {composeProjectNamePrefixKey, composeServiceNamePrefixKey,
                 cfnStackNamePrefixKey} :
       LET entry == Get(EntryMapOf(clusterFile, "clusters").m, LookupName(clusterFile, sel)).m
       IN Has(entry, fld) /\ ~IsString(Get(entry, fld))

\* GetConfigs ran last, on the two new-format documents, both read and parsed
ResolvedNewFormat ==
  /\ last.op = "GetConfigs"
  /\ ~last.res.legacy
  /\ Parses(profileFile)
  /\ Parses(clusterFile)

\* the call returned an error and no configuration object
FailedWithError(res) == res.outcome = "error" /\ ~res.hasCfg

(***************************************************************************)
(* C1: resolution over the two new-format documents never returns a        *)
(* partially populated result: whenever the profile or the cluster lookup  *)
(* hits a structural mismatch, GetConfigs fails and returns no             *)
(* configuration object.  (A panic is counted as a failure here, so a      *)
(* violation is a return with a nil error.)                                *)
(***************************************************************************)
C1_NoPartialResult ==
  (ResolvedNewFormat /\ (ProfileMismatch(last.pr) \/ ClusterMismatch(last.cl)))
    => (FailedWithError(last.res) \/ last.res.outcome = "panic")

(***************************************************************************)
(* C2: when each document's default key names an existing entry, GetConfigs *)
(* with an empty selector returns the same result as GetConfigs with the   *)
(* default's name given explicitly, for both selectors empty and for one.  *)
(***************************************************************************)
DefaultNamesEntry(f, key) ==
  /\ IsString(DefaultOf(f))
  /\ EntryMapOf(f, key).t = "map"
  /\ Has(EntryMapOf(f, key).m, DefaultOf(f).v)

Explicit(f, sel) == IF sel = "" THEN DefaultOf(f).v ELSE sel

C2_DefaultEqualsExplicit ==
  (/\ ResolvedNewFormat
   /\ last.cl = "" \/ last.pr = ""
   /\ DefaultNamesEntry(profileFile, "ecs_profiles")
   /\ DefaultNamesEntry(clusterFile, "clusters"))
    => last.res = GetConfigs(Explicit(clusterFile, last.cl), Explicit(profileFile, last.pr),
                             profileFile, clusterFile, iniFile)

\* both selectors empty, the defaults name the second entry of each document
C2_Witness ==
  /\ ResolvedNewFormat
  /\ last.cl = "" /\ last.pr = ""
  /\ DefaultNamesEntry(profileFile, "ecs_profiles")
  /\ DefaultNamesEntry(clusterFile, "clusters")
  /\ DefaultOf(profileFile).v = "b" /\ DefaultOf(clusterFile).v = "b"
  /\ last.res.outcome = "ok"
  /\ last.res.cfg.AwsAccessKey = "AK2" /\ last.res.cfg.Cluster = "c2"

(***************************************************************************)
(* Reading an entry back                                                   *)
(***************************************************************************)
\* the credentials resolution yields for the profile selector sel: what
\* processProfileMap assigns, or << >> when it fails
ReadBackProfile(sel) ==
  LET st == processProfileMap(sel, Loaded(profileFile).m, EmptyMap, NewCliConfig) IN
  IF Parses(profileFile) /\ st.status = "ok"
    THEN <<st.cfg.AwsAccessKey, st.cfg.AwsSecretKey>>
    ELSE << >>

\* the cluster and region resolution yields for the cluster selector sel
ReadBackCluster(sel) ==
  LET st == processClusterMap(sel, Loaded(clusterFile).m, EmptyMap, NewCliConfig) IN
  IF Parses(clusterFile) /\ st.status = "ok"
    THEN <<st.cfg.Cluster, st.cfg.Region>>
    ELSE << >>

\* GetConfigs(cl, pr) on the current files
Resolve(cl, pr) == GetConfigs(cl, pr, profileFile, clusterFile, iniFile)

\* a call of GetConfigs that returns a configuration read from the documents
FromDocuments(res) == res.outcome = "ok" /\ ~res.legacy

\* the save that ran last rewrote its document, which held no entry before
FirstSave(op) == last.op = op /\ last.wrote /\ last.first

(***************************************************************************)
(* C3: starting from a document with no entries, SaveProfile(e) followed   *)
(* by resolution with an empty profile selector returns e's credentials,   *)
(* and SaveCluster(c) followed by resolution with an empty cluster         *)
(* selector returns c's cluster and region.                                *)
(***************************************************************************)
C3_FirstSavedIsDefault ==
  /\ FirstSave("SaveProfile") =>
       /\ ReadBackProfile("") = <<last.a, last.b>>
       /\ \A cl \in Names :
            FromDocuments(Resolve(cl, "")) =>
              /\ Resolve(cl, "").cfg.AwsAccessKey = last.a
              /\ Resolve(cl, "").cfg.AwsSecretKey = last.b
  /\ FirstSave("SaveCluster") =>
       /\ ReadBackCluster("") = <<last.a, last.b>>
       /\ \A pr \in Names :
            FromDocuments(Resolve("", pr)) =>
              /\ Resolve("", pr).cfg.Cluster = last.a
              /\ Resolve("", pr).cfg.Region = last.b

\* a first profile saved with an access key that YAML must quote, and
\* GetConfigs with both selectors empty returning it
C3_Witness ==
  /\ FirstSave("SaveProfile")
  /\ last.a = "7"
  /\ FromDocuments(Resolve("", ""))
  /\ Resolve("", "").cfg.AwsAccessKey = "7"

(***************************************************************************)
(* C4: a save that rewrites its document sets the default pointer to the   *)
(* saved entry's name when the entry mapping held no entries before the    *)
(* insertion, and leaves the default pointer as it was otherwise.          *)
(***************************************************************************)
DefaultRule(op, f, key) ==
  (last'.op = op /\ last'.wrote) =>
    IF DOMAIN EntryMapOf(f, key).m = {}
      THEN DefaultOf(f)' = GoString(last'.name)
      ELSE DefaultOf(f)' = DefaultOf(f)

C4_DefaultOnlyWhenFirst ==
  [][/\ DefaultRule("SaveProfile", profileFile, "ecs_profiles")
     /\ DefaultRule("SaveCluster", clusterFile, "clusters")]_vars

\* a save under another name into a document that holds an entry already:
\* the default pointer still names the first entry
C4_Witness ==
  /\ last.op = "SaveProfile" /\ last.wrote /\ ~last.first
  /\ last.name = "b"
  /\ DefaultOf(profileFile) = GoString("a")
  /\ Has(EntryMapOf(profileFile, "ecs_profiles").m, "b")

(***************************************************************************)
(* C5: after any sequence of write-path operations that rewrote their      *)
(* documents, the entry read back under a name n (by resolving with        *)
(* selector n) holds the values of the most recent save under n.           *)
(***************************************************************************)
RoundTrip(names) ==
  \A n \in names :
    /\ savedProfiles[n].set => ReadBackProfile(n) = savedProfiles[n].val
    /\ savedClusters[n].set => ReadBackCluster(n) = savedClusters[n].val

\* the claim as stated, for every name
C5_RoundTripAnyName == RoundTrip(Names)

\* amended: for every name but the empty one, which as a selector means
\* "the default entry"
C5_RoundTripNamed == RoundTrip(Names \ {""})

\* entry "a" was saved and entry "b" after it with other values: "a" reads
\* back with the values of its own save
C5_Witness ==
  /\ savedProfiles["a"].set /\ savedProfiles["b"].set
  /\ last.op = "SaveProfile" /\ last.name = "b" /\ last.wrote /\ last.a = "AK1"
  /\ savedProfiles["a"].val = <<"7", "SK">>
  /\ ReadBackProfile("a") = <<"7", "SK">>

(***************************************************************************)
(* Format selection                                                        *)
(***************************************************************************)
\* the result is the legacy reader's, handed on unchanged
LegacyResultUnchanged(res) ==
  IF IniGetConfig(iniFile).err THEN FailedWithError(res)
  ELSE /\ res.outcome = "ok"
       /\ res.hasCfg
       /\ res.cfg = IniGetConfig(iniFile).cfg
       /\ res.cmap = IniGetConfig(iniFile).cmap

LegacyValues == {LegacyConfig[fld] : fld \in DOMAIN LegacyConfig} \ {""}

\* no field of the result holds a value of the legacy file
NoLegacyValue(res) ==
  /\ \A fld \in DOMAIN res.cfg : res.cfg[fld] \notin LegacyValues
  /\ \A key \in DOMAIN res.cmap : res.cmap[key] \notin {GoString(v) : v \in LegacyValues}

FormatSelection(newFormatMissing) ==
  last.op = "GetConfigs" =>
    /\ last.res.legacy <=> (iniFile.exists /\ newFormatMissing)
    /\ last.res.legacy => LegacyResultUnchanged(last.res)
    /\ ~last.res.legacy => NoLegacyValue(last.res)

(***************************************************************************)
(* C6: over every combination of file existence, resolution delegates to   *)
(* the legacy reader and returns its result unchanged exactly when the     *)
(* legacy file exists and the new dual-file format does not; otherwise the *)
(* result holds no value of the legacy file.                               *)
(***************************************************************************)
\* the claim as stated: the new format is missing when neither of its two
\* documents exists
C6_LegacyIffNoNewDocument ==
  FormatSelection(~clusterFile.exists /\ ~profileFile.exists)

\* amended: the cluster document alone stands for the new format
C6_LegacyIffNoClusterDocument == FormatSelection(~clusterFile.exists)

\* legacy file and profile document exist, the cluster document does not:
\* the legacy values are returned
C6_Witness ==
  /\ last.op = "GetConfigs"
  /\ iniFile.exists /\ profileFile.exists /\ ~clusterFile.exists
  /\ last.res.legacy
  /\ last.res.outcome = "ok"
  /\ last.res.cfg.Cluster = "iniCluster"

(***************************************************************************)
(* C7: when resolution does not take the legacy path, a missing cluster    *)
(* document or a missing profile document makes GetConfigs return an error *)
(* and no configuration object; so does the absence of all three files.    *)
(***************************************************************************)
C7_MissingDocumentIsError ==
  (/\ last.op = "GetConfigs"
   /\ ~(iniFile.exists /\ ~clusterFile.exists)
   /\ ~clusterFile.exists \/ ~profileFile.exists)
    => FailedWithError(last.res)

\* the profile document is missing beside a well-formed cluster document
C7_Witness ==
  /\ last.op = "GetConfigs"
  /\ ~profileFile.exists
  /\ clusterFile.exists /\ ReadBackCluster("a") = <<"c1", "r1">>
  /\ FailedWithError(last.res)

(***************************************************************************)
(* C8: if the profile document or the cluster document holds no entries    *)
(* (entry mapping empty or absent), resolution with both selectors empty   *)
(* fails; it never returns a configuration object with a nil error.        *)
(***************************************************************************)
C8_NoEntriesIsError ==
  (/\ ResolvedNewFormat
   /\ last.cl = "" /\ last.pr = ""
   /\ HoldsNoEntry(profileFile, "ecs_profiles") \/ HoldsNoEntry(clusterFile, "clusters"))
    => last.res.outcome # "ok"

(***************************************************************************)
(* C9: every write-path operation returns an error to its caller whenever  *)
(* the rewrite of the document fails (directory creation, permission       *)
(* change or file write).                                                  *)
(***************************************************************************)
WriteOps == {"SaveProfile", "SaveCluster", "SetDefaultProfile", "SetDefaultCluster"}

C9_RewriteFailureReported ==
  (last.op \in WriteOps /\ last.saveErr) => last.err

(***************************************************************************)
(* C10: a save whose target document cannot be read (missing, unreadable,  *)
(* not parseable, or lacking the entry mapping) fails with an error and    *)
(* leaves the filesystem unchanged.                                        *)
(***************************************************************************)
\* the document at f can be loaded and holds the entry mapping
Loadable(f, key) == Parses(f) /\ EntryMapOf(f, key).t = "map"

FailsUnchanged(op, f, key) ==
  (last'.op = op /\ ~Loadable(f, key)) =>
    /\ last'.err
    /\ profileFile' = profileFile
    /\ clusterFile' = clusterFile
    /\ iniFile' = iniFile

C10_UnreadableSaveChangesNothing ==
  [][/\ FailsUnchanged("SaveProfile", profileFile, "ecs_profiles")
     /\ FailsUnchanged("SaveCluster", clusterFile, "clusters")]_vars

\* a save on a zero-length document (no entry mapping) that failed and left
\* the document zero-length
C10_Witness ==
  /\ last.op = "SaveProfile"
  /\ last.err
  /\ profileFile = File(420, EmptyText)

(***************************************************************************)
(* C11: SetDefaultProfile and SetDefaultCluster change only the "default"  *)
(* key of their own document: every other key of the document, with every  *)
(* entry and every field under it, is the same after the operation as      *)
(* before it, and the other document and the legacy file are untouched.    *)
(***************************************************************************)
\* what the document stored at f holds apart from its "default" key
Rest(f) ==
  LET d == Unmarshal(f.text) IN
  [exists |-> f.exists, err |-> d.err,
   m |-> [key \in DOMAIN d.m \ {GoString("default")} |-> d.m[key]]]

C11_SetDefaultTouchesOnlyDefault ==
  [][/\ last'.op = "SetDefaultProfile" =>
          /\ Rest(profileFile') = Rest(profileFile)
          /\ clusterFile' = clusterFile
          /\ iniFile' = iniFile
     /\ last'.op = "SetDefaultCluster" =>
          /\ Rest(clusterFile') = Rest(clusterFile)
          /\ profileFile' = profileFile
          /\ iniFile' = iniFile]_vars

TightenedFirst(ops, f, f2) ==
  last'.op \in ops =>
    \* content was written or cut off only under mode 0600
    /\ (f.exists /\ f2.text # f.text) => f2.mode = configFileMode
    /\ last'.chmodFailed => f2 = f
    /\ last'.wrote => (f2.exists /\ f2.mode = configFileMode)

C13_ModeTightenedBeforeWrite ==
  [][/\ TightenedFirst({"SaveProfile", "SetDefaultProfile"}, profileFile, profileFile')
     /\ TightenedFirst({"SaveCluster", "SetDefaultCluster"}, clusterFile, clusterFile')]_vars

\* the first operation of a run rewrote a document: it was there with mode
\* 0644 and now has mode 0600
C13_Witness ==
  /\ nOps = 1
  /\ last.op = "SaveCluster"
  /\ last.wrote
  /\ clusterFile.mode = configFileMode
  /\ Get(Loaded(clusterFile).m, "clusters").t = "map"

(***************************************************************************)
(* Task parameters: the health check of a container definition.  The node  *)
(* under "healthcheck" is a mapping; each of its keys is missing or holds  *)
(* a string, an integer or a sequence of strings.  The string of a time    *)
(* field is given by its characters.                                       *)
(***************************************************************************)
NoNode == [k |-> "absent"]

StrNode(s) == [k |-> "str", s |-> s]

\* a string given by its characters
TextNode(c) == [k |-> "str", c |-> c]

IntNode(n) == [k |-> "int", n |-> n]

SeqNode(q) == [k |-> "seq", q |-> q]

\* a nil *int64 and a pointer to the value v
NilInt == [set |-> FALSE, v |-> 0]

Ptr(v) == [set |-> TRUE, v |-> v]

\* a nil []*string and the slice aws.StringSlice(q)
NilSlice == [set |-> FALSE, v |-> <<>>]

StringSlice(q) == [set |-> TRUE, v |-> q]

\* HealthCheck{}
ZeroHealthCheck ==
  [Command |-> NilSlice, Retries |-> NilInt, Timeout |-> NilInt,
   StartPeriod |-> NilInt, Interval |-> NilInt]

\* libYaml.Stringorslice: a string is kept as a slice of one element, a
\* sequence as its elements, a missing key as the nil slice
Stringorslice(n) ==
  CASE n.k = "str" -> <<n.s>>
    [] n.k = "seq" -> n.q
    [] n.k = "absent" -> <<>>

\* a string field of healthCheckFormat: "" unless the key is given
StringField(n) == IF n.k = "str" THEN n.c ELSE <<>>

defaultRetries == 3

\* unmarshal(&rawHealthCheck) into healthCheckFormat{Retries: 3}; err: the
\* value of retries is not an integer
healthCheckFormat(node) ==
  [err |-> node.retries.k = "str",
   Test |-> Stringorslice(node.test),
   Command |-> Stringorslice(node.command),
   Timeout |-> StringField(node.timeout),
   Interval |-> StringField(node.interval),
   Retries |-> IF node.retries.k = "int" THEN node.retries.n ELSE defaultRetries,
   StartPeriod |-> StringField(node.start_period)]

\* a command is never wrapped
parseHealthCheckCommand_NeverWraps(command, healthCheck) ==
  [healthCheck EXCEPT !.Command = StringSlice(command)]

parseHealthCheckCommand(command, healthCheck) ==
  IF Len(command) = 1
    THEN [healthCheck EXCEPT !.Command = StringSlice(<<"CMD-SHELL", command[1]>>)]
    ELSE [healthCheck EXCEPT !.Command = StringSlice(command)]

DigitVal ==
  ("0" :> 0) @@ ("1" :> 1) @@ ("2" :> 2) @@ ("3" :> 3) @@ ("4" :> 4) @@
  ("5" :> 5) @@ ("6" :> 6) @@ ("7" :> 7) @@ ("8" :> 8) @@ ("9" :> 9)

IsDigit(c) == c \in DOMAIN DigitVal

\* the number of leading digits of s
RECURSIVE LeadingLen(_)
LeadingLen(s) ==
  IF s = <<>> THEN 0
  ELSE IF ~IsDigit(Head(s)) THEN 0
  ELSE 1 + LeadingLen(Tail(s))

\* the number of leading characters of s that are not digits
RECURSIVE UnitLen(_)
UnitLen(s) ==
  IF s = <<>> THEN 0
  ELSE IF IsDigit(Head(s)) THEN 0
  ELSE 1 + UnitLen(Tail(s))

\* the number a sequence of digits writes in base 10
RECURSIVE DecimalValue(_)
DecimalValue(s) ==
  IF s = <<>> THEN 0
  ELSE 10 * DecimalValue(SubSeq(s, 1, Len(s) - 1)) + DigitVal[s[Len(s)]]

\* the units of time.ParseDuration that the texts below use, in milliseconds
unitMap ==
  (<<"h">> :> 3600000) @@ (<<"m">> :> 60000) @@ (<<"s">> :> 1000) @@ (<<"m", "s">> :> 1)

\* the loop of time.ParseDuration: groups of digits followed by a unit
RECURSIVE ParseGroups(_)
ParseGroups(s) ==
  IF s = <<>> THEN [ok |-> TRUE, d |-> 0]
  ELSE
    LET n == LeadingLen(s)
        rest == SubSeq(s, n + 1, Len(s))
        u == UnitLen(rest)
        unit == SubSeq(rest, 1, u)
        more == ParseGroups(SubSeq(rest, u + 1, Len(rest)))
    IN
    IF n = 0 \/ u = 0 THEN [ok |-> FALSE, d |-> 0]
    ELSE IF unit \notin DOMAIN unitMap THEN [ok |-> FALSE, d |-> 0]
    ELSE IF ~more.ok THEN [ok |-> FALSE, d |-> 0]
    ELSE [ok |-> TRUE, d |-> DecimalValue(SubSeq(s, 1, n)) * unitMap[unit] + more.d]

IsSigned(s) == IF s = <<>> THEN FALSE ELSE Head(s) \in {"-", "+"}

Unsigned(s) == IF IsSigned(s) THEN Tail(s) ELSE s

Signed(s, v) == IF IsSigned(s) /\ Head(s) = "-" THEN 0 - v ELSE v

\* time.ParseDuration(s), the duration d in milliseconds
ParseDuration(s) ==
  IF Unsigned(s) = <<"0">> THEN [ok |-> TRUE, d |-> 0]
  ELSE IF Unsigned(s) = <<>> THEN [ok |-> FALSE, d |-> 0]
  ELSE LET g == ParseGroups(Unsigned(s)) IN
       IF g.ok THEN [ok |-> TRUE, d |-> Signed(s, g.d)] ELSE [ok |-> FALSE, d |-> 0]

\* strconv.ParseInt(s, 10, 64)
ParseInt(s) ==
  IF Unsigned(s) # <<>> /\ LeadingLen(Unsigned(s)) = Len(Unsigned(s))
    THEN [ok |-> TRUE, val |-> Signed(s, DecimalValue(Unsigned(s)))]
    ELSE [ok |-> FALSE, val |-> 0]

\* adapter.ConvertToTimeInSeconds(&duration): whole seconds, what is left
\* of a second is cut off
ConvertToTimeInSeconds(d) ==
  IF d < 0 THEN Ptr(0 - ((0 - d) \div 1000)) ELSE Ptr(d \div 1000)

\* an empty field yields zero seconds
parseHealthCheckTimeField_EmptyIsZero(field) ==
  IF ParseDuration(field).ok
    THEN [err |-> FALSE, val |-> ConvertToTimeInSeconds(ParseDuration(field).d)]
  ELSE IF ParseInt(field).ok THEN [err |-> FALSE, val |-> Ptr(ParseInt(field).val)]
  ELSE [err |-> field # <<>>, val |-> Ptr(0)]

parseHealthCheckTimeField(field) ==
  IF field # <<>>
    THEN IF ParseDuration(field).ok
           THEN [err |-> FALSE, val |-> ConvertToTimeInSeconds(ParseDuration(field).d)]
         ELSE IF ParseInt(field).ok
           THEN [err |-> FALSE, val |-> Ptr(ParseInt(field).val)]
         ELSE [err |-> TRUE, val |-> NilInt]
    ELSE [err |-> FALSE, val |-> NilInt]

\* the two fields clash only when both hold more than one element
Conflict_BothLong(raw) == Len(raw.Command) > 1 /\ Len(raw.Test) > 1

\* len(rawHealthCheck.Command) > 0 && len(rawHealthCheck.Test) > 0
Conflict(raw) == Len(raw.Command) > 0 /\ Len(raw.Test) > 0

\* what UnmarshalYAML hands back: err tells which error it returned ("none"
\* for nil), h is the receiver afterwards
Parsed(err, h) == [k |-> "healthcheck", err |-> err, h |-> h]

\* (h *HealthCheck) UnmarshalYAML on the mapping node
UnmarshalYAML(node, h) ==
  LET raw == healthCheckFormat(node)
      hc0 == ZeroHealthCheck
      hc1 == IF Len(raw.Command) > 0 THEN parseHealthCheckCommand(raw.Command, hc0) ELSE hc0
      hc2 == IF Len(raw.Test) > 0 THEN parseHealthCheckCommand(raw.Test, hc1) ELSE hc1
      hc3 == [hc2 EXCEPT !.Retries = Ptr(raw.Retries)]
      timeout == parseHealthCheckTimeField(raw.Timeout)
      startPeriod == parseHealthCheckTimeField(raw.StartPeriod)
      interval == parseHealthCheckTimeField(raw.Interval)
  IN
  IF raw.err THEN Parsed("unmarshal", h)
  ELSE IF Conflict(raw) THEN Parsed("conflict", h)
  ELSE IF timeout.err \/ startPeriod.err \/ interval.err THEN Parsed("time", h)
  ELSE Parsed("none", [hc3 EXCEPT !.Timeout = timeout.val,
                                  !.StartPeriod = startPeriod.val,
                                  !.Interval = interval.val])

\* the shapes of "command" and of "test"
CommandNodes ==
  {NoNode, StrNode("x"), StrNode(""), SeqNode(<<>>), SeqNode(<<"x">>),
   SeqNode(<<"CMD", "x">>)}

\* the values of "retries": missing, integers, and a word
RetriesNodes == {NoNode, IntNode(0), IntNode(1), IntNode(5), StrNode("x")}

\* the texts every time field is tried with: "", "1m30s", "45", "abc"
TimeTexts ==
  {<<>>, <<"1", "m", "3", "0", "s">>, <<"4", "5">>, <<"a", "b", "c">>}

TimeoutNodes ==
  {NoNode} \cup {TextNode(t) : t \in TimeTexts \cup {<<"1", "5", "0", "0", "m", "s">>, <<"0">>}}

IntervalNodes ==
  {NoNode} \cup {TextNode(t) : t \in TimeTexts \cup {<<"1", "m", "3", "0">>, <<"1", "h">>}}

StartPeriodNodes ==
  {NoNode} \cup {TextNode(t) : t \in TimeTexts \cup {<<"-", "9", "0", "s">>, <<"-", "5">>}}

HealthCheckNodes ==
  [test : CommandNodes, command : CommandNodes, retries : RetriesNodes,
   timeout : TimeoutNodes, interval : IntervalNodes, start_period : StartPeriodNodes]

\* nothing was parsed yet; h is the receiver, a HealthCheck{}
NotRun == [k |-> "notrun", err |-> "none", h |-> ZeroHealthCheck]

InitHealth ==
  /\ profileFile = NoFile
  /\ clusterFile = NoFile
  /\ iniFile = [exists |-> FALSE, ok |-> FALSE]
  /\ last = NoOp
  /\ savedProfiles = Unsaved
  /\ savedClusters = Unsaved
  /\ nOps = 0
  /\ input \in HealthCheckNodes
  /\ output = NotRun
  /\ proc = NoProcs

DoUnmarshalHealthCheck ==
  /\ output = NotRun
  /\ output' = UnmarshalYAML(input, output.h)
  /\ UNCHANGED <<profileFile, clusterFile, iniFile, last, savedProfiles, savedClusters,
                 nOps, input, proc>>

NextHealth == DoUnmarshalHealthCheck

SpecHealth == InitHealth /\ [][NextHealth]_vars

(***************************************************************************)
(* Vocabulary of the health-check properties                               *)
(***************************************************************************)
\* UnmarshalYAML has run on the node
Ran == output.k = "healthcheck"

\* the node decodes into the format: retries is an integer or missing
Decodes == input.retries.k # "str"

\* the key is given and is not empty
NonEmptyNode(n) ==
  \/ n.k = "str" /\ n.s # ""
  \/ n.k = "seq" /\ Len(n.q) > 0

\* the key is missing or empty
EmptyNode(n) == ~NonEmptyNode(n)

\* what the texts of the time fields stand for, in seconds
ExpectedSeconds ==
  (<<"1", "m", "3", "0", "s">> :> 90) @@ (<<"4", "5">> :> 45) @@
  (<<"1", "5", "0", "0", "m", "s">> :> 1) @@ (<<"0">> :> 0) @@
  (<<"1", "h">> :> 3600) @@ (<<"-", "9", "0", "s">> :> 0 - 90) @@
  (<<"-", "5">> :> 0 - 5)

\* the texts that are neither a duration nor an integer: "abc", "1m30"
BadTimeTexts == {<<"a", "b", "c">>, <<"1", "m", "3", "0">>}

TimeKeys == {"timeout", "interval", "start_period"}

FieldOf(key) ==
  CASE key = "timeout" -> output.h.Timeout
    [] key = "interval" -> output.h.Interval
    [] key = "start_period" -> output.h.StartPeriod

BadTime(n) == n.k = "str" /\ n.c \in BadTimeTexts

ExpectedTime(n) ==
  IF n.k = "absent" THEN NilInt
  ELSE IF n.c = <<>> THEN NilInt
  ELSE Ptr(ExpectedSeconds[n.c])

TimesValid == \A key \in TimeKeys : ~BadTime(input[key])

(***************************************************************************)
(* C14: parsing a health check fails with the conflict error whenever      *)
(* both "command" and "test" are given and non-empty, whatever their       *)
(* shapes and lengths, and the target health check is then not populated.  *)
(***************************************************************************)
C14_CommandAndTestConflict ==
  (Ran /\ Decodes /\ NonEmptyNode(input.command) /\ NonEmptyNode(input.test)) =>
    /\ output.err = "conflict"
    /\ output.h = ZeroHealthCheck

\* a command of two elements against a test given as a string
C14_Witness ==
  /\ Ran
  /\ input.command = SeqNode(<<"CMD", "x">>)
  /\ input.test = StrNode("x")
  /\ output.err = "conflict"

(***************************************************************************)
(* C15: a health check whose "test" is a single string s, with no          *)
(* "command" and no "retries" (and time fields that parse), is normalized  *)
(* to the command ["CMD-SHELL", s] with retries 3.                         *)
(***************************************************************************)
C15_StringTestIsShellWrapped ==
  (/\ Ran
   /\ input.test.k = "str"
   /\ input.command = NoNode
   /\ input.retries = NoNode
   /\ TimesValid) =>
    /\ output.err = "none"
    /\ output.h.Command = StringSlice(<<"CMD-SHELL", input.test.s>>)
    /\ output.h.Retries = Ptr(3)

C15_Witness ==
  /\ Ran
  /\ input.test = StrNode("x")
  /\ input.command = NoNode
  /\ input.retries = NoNode
  /\ output.h.Command.v = <<"CMD-SHELL", "x">>
  /\ output.h.Retries.v = 3

(***************************************************************************)
(* C16: a health check whose "command" or "test" is a sequence with        *)
(* exactly one element x is normalized to the one-element command [x]; it  *)
(* is not wrapped into ["CMD-SHELL", x].                                   *)
(***************************************************************************)
C16_SingleElementIsLiteral ==
  (Ran /\ output.err = "none") =>
    \A key \in {"command", "test"} :
      (input[key].k = "seq" /\ Len(input[key].q) = 1) =>
        output.h.Command = StringSlice(input[key].q)

(***************************************************************************)
(* C17: the retries of the normalized health check are 3 when "retries"    *)
(* is missing and when it is given as 0; for any other given n they are n. *)
(***************************************************************************)
C17_RetriesDefault ==
  (Ran /\ output.err = "none") =>
    output.h.Retries =
      Ptr(IF input.retries.k = "int" /\ input.retries.n # 0
            THEN input.retries.n ELSE 3)

(***************************************************************************)
(* C18: each of "timeout", "interval" and "start_period" is parsed the     *)
(* same way: a missing or empty field stays unset; a duration string       *)
(* yields the duration in whole seconds ("1m30s" gives 90); otherwise a    *)
(* base-10 integer yields that number of seconds ("45" gives 45);          *)
(* otherwise ("abc") the parsing of the whole health check fails.          *)
(***************************************************************************)
C18_TimeFields ==
  (Ran /\ output.err \notin {"unmarshal", "conflict"}) =>
    IF TimesValid
      THEN /\ output.err = "none"
           /\ \A key \in TimeKeys : FieldOf(key) = ExpectedTime(input[key])
      ELSE /\ output.err = "time"
           /\ output.h = ZeroHealthCheck

\* a duration, an integer and a missing field in one health check
C18_Witness ==
  /\ Ran
  /\ input.timeout = TextNode(<<"1", "m", "3", "0", "s">>)
  /\ input.start_period = TextNode(<<"4", "5">>)
  /\ input.interval = NoNode
  /\ output.h.Timeout = Ptr(90)
  /\ output.h.StartPeriod = Ptr(45)
  /\ output.h.Interval = NilInt

(***************************************************************************)
(* Task parameters: the network configuration                              *)
(***************************************************************************)
\* the longest list of subnets and of security groups tried
MaxList == 2

\* a nil *ECSParams
NilParams == [set |-> FALSE]

\* the fields of *ECSParams that the conversion reads
ECSParams(networkMode, subnets, securityGroups, assignPublicIp) ==
  [set |-> TRUE, NetworkMode |-> networkMode, Subnets |-> subnets,
   SecurityGroups |-> securityGroups, AssignPublicIp |-> assignPublicIp]

\* a nil *string and aws.String(v)
NilString == [set |-> FALSE, v |-> ""]

String(v) == [set |-> TRUE, v |-> v]

\* a nil *ecs.NetworkConfiguration
NilNetworkConfiguration ==
  [set |-> FALSE, Subnets |-> <<>>, SecurityGroups |-> <<>>, AssignPublicIp |-> NilString]

\* &ecs.NetworkConfiguration{AwsvpcConfiguration: &ecs.AwsVpcConfiguration{...}}
NetworkConfiguration(subnets, securityGroups, assignPublicIp) ==
  [set |-> TRUE, Subnets |-> subnets, SecurityGroups |-> securityGroups,
   AssignPublicIp |-> assignPublicIp]

\* make([]*string, len(list)) filled by "for i, x := range list"
StringPointers(list) == [i \in 1..Len(list) |-> list[i]]

\* what the conversion returns
Converted(cfg, err) == [k |-> "network", cfg |-> cfg, err |-> err]

\* the public-IP assignment is always set
ConvertToECSNetworkConfiguration_AlwaysAssigns(ecsParams) ==
  IF ~ecsParams.set THEN Converted(NilNetworkConfiguration, FALSE)
  ELSE IF ecsParams.NetworkMode # "awsvpc" THEN Converted(NilNetworkConfiguration, FALSE)
  ELSE IF Len(ecsParams.Subnets) < 1 THEN Converted(NilNetworkConfiguration, TRUE)
  ELSE Converted(NetworkConfiguration(StringPointers(ecsParams.Subnets),
                                     StringPointers(ecsParams.SecurityGroups),
                                     String(ecsParams.AssignPublicIp)), FALSE)

ConvertToECSNetworkConfiguration(ecsParams) ==
  IF ~ecsParams.set THEN Converted(NilNetworkConfiguration, FALSE)
  ELSE IF ecsParams.NetworkMode # "awsvpc" THEN Converted(NilNetworkConfiguration, FALSE)
  ELSE IF Len(ecsParams.Subnets) < 1 THEN Converted(NilNetworkConfiguration, TRUE)
  ELSE Converted(NetworkConfiguration(
                   StringPointers(ecsParams.Subnets),
                   StringPointers(ecsParams.SecurityGroups),
                   IF ecsParams.AssignPublicIp # ""
                     THEN String(ecsParams.AssignPublicIp) ELSE NilString), FALSE)

\* the lists of at most MaxList elements of S
Lists(S) == UNION {[1..n -> S] : n \in 0..MaxList}

NetworkModes == {"", "bridge", "host", "none", "awsvpc"}

AssignPublicIps == {"", "ENABLED", "DISABLED"}

ParamsInputs ==
  {NilParams} \cup
  {ECSParams(mode, subnets, groups, ip) :
     mode \in NetworkModes, subnets \in Lists({"subnet-1", "subnet-2"}),
     groups \in Lists({"sg-1", "sg-2"}), ip \in AssignPublicIps}

NotConverted == [k |-> "notrun"]

InitNetwork ==
  /\ profileFile = NoFile
  /\ clusterFile = NoFile
  /\ iniFile = [exists |-> FALSE, ok |-> FALSE]
  /\ last = NoOp
  /\ savedProfiles = Unsaved
  /\ savedClusters = Unsaved
  /\ nOps = 0
  /\ input \in ParamsInputs
  /\ output = NotConverted
  /\ proc = NoProcs

DoConvertNetwork ==
  /\ output = NotConverted
  /\ output' = ConvertToECSNetworkConfiguration(input)
  /\ UNCHANGED <<profileFile, clusterFile, iniFile, last, savedProfiles, savedClusters,
                 nOps, input, proc>>

NextNetwork == DoConvertNetwork

SpecNetwork == InitNetwork /\ [][NextNetwork]_vars

(***************************************************************************)
(* C19: network extraction matches this reference for every input: a nil   *)
(* document or a network mode other than "awsvpc" yields (nil, nil);       *)
(* "awsvpc" with no subnet yields a validation error and no configuration; *)
(* "awsvpc" with at least one subnet yields a configuration whose subnets  *)
(* and security groups equal the source lists element for element in the   *)
(* same order, and whose public-IP assignment is set if and only if it is  *)
(* non-empty in the source.                                                *)
(***************************************************************************)
SameList(got, source) ==
  /\ Len(got) = Len(source)
  /\ \A i \in 1..Len(source) : got[i] = source[i]

C19_NetworkExtraction ==
  output.k = "network" =>
    CASE ~input.set -> ~output.cfg.set /\ ~output.err
      [] input.set /\ input.NetworkMode # "awsvpc" -> ~output.cfg.set /\ ~output.err
      [] input.set /\ input.NetworkMode = "awsvpc" /\ input.Subnets = <<>> ->
           ~output.cfg.set /\ output.err
      [] OTHER ->
           /\ output.cfg.set
           /\ ~output.err
           /\ SameList(output.cfg.Subnets, input.Subnets)
           /\ SameList(output.cfg.SecurityGroups, input.SecurityGroups)
           /\ output.cfg.AssignPublicIp.set <=> input.AssignPublicIp # ""
           /\ output.cfg.AssignPublicIp.set =>
                output.cfg.AssignPublicIp.v = input.AssignPublicIp

\* two subnets in an order that is not the sorted one, no security group,
\* no public-IP assignment
C19_Witness ==
  /\ output.k = "network"
  /\ input.set
  /\ input.Subnets = <<"subnet-2", "subnet-1">>
  /\ input.SecurityGroups = <<>>
  /\ input.AssignPublicIp = ""
  /\ output.cfg.set
  /\ output.cfg.Subnets = <<"subnet-2", "subnet-1">>
  /\ ~output.cfg.AssignPublicIp.set

(***************************************************************************)
(* Task parameters: ReadECSParams.  The text of a parameter file is        *)
(* zero-length, not YAML, or a document with the scalars "version" and     *)
(* "ecs_network_mode" (under "task_definition"); a scalar is missing, a    *)
(* literal, or a reference ${NAME} to an environment variable.             *)
(***************************************************************************)
defaultFilename == "ecs-params.yml"

customFilename == "custom.yml"

NoPiece == [k |-> "absent", s |-> ""]

Lit(s) == [k |-> "lit", s |-> s]

Ref(name) == [k |-> "ref", s |-> name]

ParamsText(version, mode) == [k |-> "doc", version |-> version, mode |-> mode]

\* an environment variable that is not set, and one set to v
Unset == [set |-> FALSE, v |-> ""]

SetTo(v) == [set |-> TRUE, v |-> v]

\* a reference to a variable that is not set is left in the text
Getenv_KeepsReference(env, name) == IF env[name].set THEN env[name].v ELSE "${MODE}"

\* os.Getenv as os.ExpandEnv uses it: "" for a variable that is not set
Getenv(env, name) == IF env[name].set THEN env[name].v ELSE ""

ExpandPiece(p, env) == IF p.k = "ref" THEN Lit(Getenv(env, p.s)) ELSE p

\* os.ExpandEnv(string(ecsParamsData))
ExpandEnv(text, env) ==
  IF text.k = "doc"
    THEN ParamsText(ExpandPiece(text.version, env), ExpandPiece(text.mode, env))
    ELSE text

\* the scalar text "[" opens a sequence that is never closed
BadScalar(p) == p.k = "lit" /\ p.s = "["

\* a string field after decoding: a missing key and a null scalar leave ""
StringOf(p) == IF p.k = "lit" THEN p.s ELSE ""

\* a nil *ECSParams as ReadECSParams returns it, and &ECSParams{...}
NoDocument == [set |-> FALSE, Version |-> "", NetworkMode |-> ""]

Document(version, mode) == [set |-> TRUE, Version |-> version, NetworkMode |-> mode]

\* yaml.Unmarshal(ecsParamsData, &ecsParams) into &ECSParams{}
UnmarshalParams(text) ==
  CASE text.k = "empty" -> [err |-> FALSE, doc |-> Document("", "")]
    [] text.k = "garbage" -> [err |-> TRUE, doc |-> Document("", "")]
    [] OTHER ->
         IF BadScalar(text.version) \/ BadScalar(text.mode)
           THEN [err |-> TRUE, doc |-> Document("", "")]
           ELSE [err |-> FALSE, doc |-> Document(StringOf(text.version), StringOf(text.mode))]

\* a nil error, and an error wrapped with the name of the file
NoError == [set |-> FALSE, kind |-> "", path |-> ""]

Wrapf(kind, path) == [set |-> TRUE, kind |-> kind, path |-> path]

\* what ReadECSParams returns
Read(doc, err) == [k |-> "params", doc |-> doc, err |-> err]

\* the file at a path of the working directory
FileAt(fs, path) ==
  CASE path = defaultFilename -> fs.defaultFile
    [] path = customFilename -> fs.customFile
    [] OTHER -> NoFile

\* os.Stat(path) returns a nil error
Stat(fs, path) == FileAt(fs, path).exists

\* an empty path always stands for the default file
ReadECSParams_DefaultRequired(filename, fs, env) ==
  LET name == IF filename = "" THEN defaultFilename ELSE filename
      data == ReadFile(FileAt(fs, name))
      params == UnmarshalParams(ExpandEnv(data.text, env))
  IN
  IF data.err THEN Read(NoDocument, Wrapf("read", name))
  ELSE IF params.err THEN Read(NoDocument, Wrapf("unmarshal", name))
  ELSE Read(params.doc, NoError)

ReadECSParams(filename, fs, env) ==
  IF filename = "" /\ ~Stat(fs, defaultFilename) THEN Read(NoDocument, NoError)
  ELSE
    LET name == IF filename = "" THEN defaultFilename ELSE filename
        data == ReadFile(FileAt(fs, name))
        params == UnmarshalParams(ExpandEnv(data.text, env))
    IN
    IF data.err THEN Read(NoDocument, Wrapf("read", name))
    ELSE IF params.err THEN Read(NoDocument, Wrapf("unmarshal", name))
    ELSE Read(params.doc, NoError)

\* the parameter files tried: missing, unreadable (mode 0000), zero-length,
\* not YAML, and three documents
ParamsFiles ==
  {NoFile, File(0, ParamsText(Lit("1"), Lit("awsvpc"))), File(420, EmptyText),
   File(420, GarbageText), File(420, ParamsText(Lit("1"), Lit("awsvpc"))),
   File(420, ParamsText(Lit("2"), Lit("bridge"))),
   File(420, ParamsText(NoPiece, Ref("MODE")))}

\* the environment: MODE is not set, names a network mode, or breaks the YAML
Environments == {[n \in {"MODE"} |-> v] : v \in {Unset, SetTo("awsvpc"), SetTo("[")}}

ReadInputs ==
  [filename : {"", defaultFilename, customFilename},
   defaultFile : ParamsFiles, customFile : ParamsFiles, env : Environments]

NotRead == [k |-> "notrun"]

InitParams ==
  /\ profileFile = NoFile
  /\ clusterFile = NoFile
  /\ iniFile = [exists |-> FALSE, ok |-> FALSE]
  /\ last = NoOp
  /\ savedProfiles = Unsaved
  /\ savedClusters = Unsaved
  /\ nOps = 0
  /\ input \in ReadInputs
  /\ output = NotRead
  /\ proc = NoProcs

DoReadECSParams ==
  /\ output = NotRead
  /\ output' = ReadECSParams(input.filename, input, input.env)
  /\ UNCHANGED <<profileFile, clusterFile, iniFile, last, savedProfiles, savedClusters,
                 nOps, input, proc>>

NextParams == DoReadECSParams

SpecParams == InitParams /\ [][NextParams]_vars

(***************************************************************************)
(* C20: ReadECSParams with an empty path returns (nil, nil) when the       *)
(* default file ecs-params.yml is absent, and loads the default file when  *)
(* it is present; with a non-empty path, a missing or unreadable file is   *)
(* an error that names the path, and no document is returned.              *)
(***************************************************************************)
\* the document a readable, well-formed file with literal scalars holds
Holds(f, version, mode) ==
  /\ f.exists
  /\ OwnerCanRead(f.mode)
  /\ f.text = ParamsText(Lit(version), Lit(mode))

\* the file cannot be read: it is missing or its mode forbids it
Unreadable(f) == ~f.exists \/ ~OwnerCanRead(f.mode)

C20_DefaultFileOptional ==
  output.k = "params" =>
    /\ (input.filename = "" /\ ~input.defaultFile.exists) =>
         (~output.doc.set /\ ~output.err.set)
    /\ (input.filename = "" /\ input.defaultFile.exists) =>
         \* the result is the one of loading ecs-params.yml by name
         /\ output = ReadECSParams(defaultFilename, input, input.env)
         /\ \A version \in {"1", "2"}, mode \in {"awsvpc", "bridge"} :
              Holds(input.defaultFile, version, mode) =>
                (output.doc = Document(version, mode) /\ ~output.err.set)
         /\ Unreadable(input.defaultFile) =>
              (~output.doc.set /\ output.err.set /\ output.err.path = defaultFilename)
    /\ (input.filename # "" /\ Unreadable(FileAt(input, input.filename))) =>
         /\ ~output.doc.set
         /\ output.err.set
         /\ output.err.path = input.filename

\* the empty path loaded the default file although another file is there
C20_Witness ==
  /\ output.k = "params"
  /\ input.filename = ""
  /\ Holds(input.defaultFile, "2", "bridge")
  /\ Holds(input.customFile, "1", "awsvpc")
  /\ output.doc = Document("2", "bridge")

(***************************************************************************)
(* C21: environment expansion runs over the raw text of the document       *)
(* before the YAML is parsed, and a reference to a variable that is not    *)
(* set expands to the empty string: loading such a document does not fail  *)
(* because of the reference.                                               *)
(***************************************************************************)
\* the file ReadECSParams reads, when it reads one
FileRead ==
  FileAt(input, IF input.filename = "" THEN defaultFilename ELSE input.filename)

\* a readable document whose network mode is the reference ${MODE}
RefersToMode ==
  /\ output.k = "params"
  /\ input.filename = "" => input.defaultFile.exists
  /\ FileRead.exists
  /\ OwnerCanRead(FileRead.mode)
  /\ FileRead.text = ParamsText(NoPiece, Ref("MODE"))

C21_UnsetReferenceExpandsToEmpty ==
  RefersToMode =>
    \* not set: the scalar is empty, the field keeps its zero value
    /\ ~input.env["MODE"].set =>
         (~output.err.set /\ output.doc = Document("", ""))
    \* set: the value is what the parser reads, as a string or as broken YAML
    /\ input.env["MODE"] = SetTo("awsvpc") =>
         (~output.err.set /\ output.doc = Document("", "awsvpc"))
    /\ input.env["MODE"] = SetTo("[") =>
         (~output.doc.set /\ output.err.set /\ output.err.kind = "unmarshal")

\* the document with the reference was loaded while MODE was not set
C21_Witness ==
  /\ RefersToMode
  /\ ~input.env["MODE"].set
  /\ output.doc.set
  /\ output.doc.NetworkMode = ""
  /\ ~output.err.set

(***************************************************************************)
(* Task parameters: a container definition under "services".  The node is  *)
(* a mapping with the keys "essential", "cpu_shares" and "healthcheck".    *)
(***************************************************************************)
BoolNode(b) == [k |-> "bool", b |-> b]

\* a key given without a value
NullNode == [k |-> "null"]

\* the fields of ContainerDef that the decoding below fills
ContainerDef(essential, cpu, healthCheck) ==
  [Essential |-> essential, Cpu |-> cpu, HealthCheck |-> healthCheck]

\* ContainerDef{}
ZeroContainerDef == ContainerDef(FALSE, 0, ZeroHealthCheck)

\* the definition starts from the zero value
rawContainerDef_Zero == ZeroContainerDef

\* raw := rawContainerDef{Essential: true}
rawContainerDef == ContainerDef(TRUE, 0, ZeroHealthCheck)

\* a bool field after decoding: a missing key keeps what the field holds, a
\* null scalar gives the zero value, another kind of scalar is an error
BoolField(n, held) ==
  CASE n.k = "absent" -> [err |-> FALSE, v |-> held]
    [] n.k = "bool" -> [err |-> FALSE, v |-> n.b]
    [] n.k = "null" -> [err |-> FALSE, v |-> FALSE]
    [] OTHER -> [err |-> TRUE, v |-> held]

\* an int64 field after decoding
IntField(n, held) == IF n.k = "int" THEN n.n ELSE held

\* the healthcheck field after decoding: UnmarshalYAML runs when the key is given
HealthCheckField(n, held) ==
  IF n.k = "healthcheck" THEN UnmarshalYAML(n.node, held) ELSE Parsed("none", held)

\* what ContainerDef.UnmarshalYAML hands back: the error and the receiver
Decoded(err, cd) == [k |-> "container", err |-> err, cd |-> cd]

\* (cd *ContainerDef) UnmarshalYAML on the mapping node
ContainerDefUnmarshalYAML(node, cd) ==
  LET raw == rawContainerDef
      essential == BoolField(node.essential, raw.Essential)
      healthCheck == HealthCheckField(node.healthcheck, raw.HealthCheck)
  IN
  IF essential.err \/ healthCheck.err # "none" THEN Decoded(TRUE, cd)
  ELSE Decoded(FALSE, ContainerDef(essential.v, IntField(node.cpu_shares, raw.Cpu),
                                   healthCheck.h))

\* the health checks a container definition is tried with
GivenHealthCheck(node) == [k |-> "healthcheck", node |-> node]

ContainerHealthChecks ==
  {NoNode} \cup
  {GivenHealthCheck(n) :
     n \in [test : CommandNodes, command : {NoNode, SeqNode(<<"CMD", "x">>)},
            retries : {NoNode, IntNode(5)}, timeout : {NoNode},
            interval : {NoNode}, start_period : {NoNode}]}

\* "essential": missing, true, false, without a value, a number
EssentialNodes == {NoNode, BoolNode(TRUE), BoolNode(FALSE), NullNode, IntNode(5)}

ContainerNodes ==
  [essential : EssentialNodes, cpu_shares : {NoNode, IntNode(100)},
   healthcheck : ContainerHealthChecks]

NotDecoded == [k |-> "notrun", err |-> FALSE, cd |-> ZeroContainerDef]

InitContainer ==
  /\ profileFile = NoFile
  /\ clusterFile = NoFile
  /\ iniFile = [exists |-> FALSE, ok |-> FALSE]
  /\ last = NoOp
  /\ savedProfiles = Unsaved
  /\ savedClusters = Unsaved
  /\ nOps = 0
  /\ input \in ContainerNodes
  /\ output = NotDecoded
  /\ proc = NoProcs

DoUnmarshalContainerDef ==
  /\ output = NotDecoded
  /\ output' = ContainerDefUnmarshalYAML(input, output.cd)
  /\ UNCHANGED <<profileFile, clusterFile, iniFile, last, savedProfiles, savedClusters,
                 nOps, input, proc>>

NextContainer == DoUnmarshalContainerDef

SpecContainer == InitContainer /\ [][NextContainer]_vars

(***************************************************************************)
(* C22: a parsed container definition has essential = true whenever the    *)
(* "essential" key is absent from its YAML, and has the given value        *)
(* whenever the key is present (an explicit false stays false).            *)
(***************************************************************************)
C22_EssentialDefaultsToTrue ==
  (output.k = "container" /\ ~output.err) =>
    /\ input.essential = NoNode => output.cd.Essential = TRUE
    /\ \A b \in BOOLEAN : input.essential = BoolNode(b) => output.cd.Essential = b

\* a definition with a health check and no "essential" key
C22_Witness ==
  /\ output.k = "container"
  /\ ~output.err
  /\ input.essential = NoNode
  /\ input.healthcheck # NoNode
  /\ output.cd.Essential
  /\ output.cd.HealthCheck.Retries = Ptr(3)

(***************************************************************************)
(* C23: default-pointer validity is an invariant of the store: starting    *)
(* from a document without entries, after any sequence of successful       *)
(* SaveProfile, SaveCluster, SetDefaultProfile and SetDefaultCluster       *)
(* operations with arbitrary names, the "default" pointer of a document    *)
(* names an entry of its mapping whenever the mapping is non-empty.        *)
(***************************************************************************)
\* the document stored at f holds entries under key, and its default
\* pointer is a string that names one of them
DefaultIsValid(f, key) ==
  LET d == Unmarshal(f.text)
      entries == Get(d.m, key)
      default == Get(d.m, "default")
  IN (f.exists /\ ~d.err /\ entries.t = "map" /\ DOMAIN entries.m # {}) =>
       (default.t = "string" /\ default \in DOMAIN entries.m)

C23_DefaultPointerValid ==
  /\ DefaultIsValid(profileFile, "ecs_profiles")
  /\ DefaultIsValid(clusterFile, "clusters")

(***************************************************************************)
(* Two processes run SaveProfile on the same profile document.  A process  *)
(* reads the document (ioutil.ReadFile), changes the map it holds in       *)
(* memory, then opens the file, which cuts it to length zero, and writes   *)
(* the map.  Nothing keeps the steps of the two processes apart.           *)
(***************************************************************************)
Procs == {1, 2}

Other(p) == CHOOSE q \in Procs : q # p

\* the entry mapping is started afresh: the entries read are not carried over
ProfileMapAfterSave_OnlyNew(name, ak, sk, f) ==
  LET dat == ReadFile(f)
      pm == Unmarshal(dat.text)
      profiles == AssertMap(Get(pm.m, "ecs_profiles"))
  IN
  IF dat.err \/ pm.err \/ ~profiles.ok THEN [err |-> TRUE, m |-> EmptyMap]
  ELSE [err |-> FALSE,
        m |-> Put(Put(pm.m, "default", GoString(name)),
                  "ecs_profiles", GoMap(Put(EmptyMap, name, NewProfile(ak, sk))))]

\* SaveProfile up to its call of saveToFile: the map read from f with the
\* profile stored in it, or the error of reading
ProfileMapAfterSave(name, ak, sk, f) ==
  LET dat == ReadFile(f)
      pm == Unmarshal(dat.text)
      profiles == AssertMap(Get(pm.m, "ecs_profiles"))
  IN
  IF dat.err \/ pm.err \/ ~profiles.ok THEN [err |-> TRUE, m |-> EmptyMap]
  ELSE
    LET m1 == IF IsFirst(profiles.m) THEN Put(pm.m, "default", GoString(name)) ELSE pm.m IN
    [err |-> FALSE,
     m |-> Put(m1, "ecs_profiles", GoMap(Put(profiles.m, name, NewProfile(ak, sk))))]

\* a process that has not called SaveProfile yet
Idle ==
  [pc |-> "start", name |-> "", val |-> <<"", "">>, m |-> EmptyMap,
   early |-> FALSE, after |-> FALSE, rank |-> 0]

InitRace ==
  /\ profileFile \in {File(420, EmptyProfileDoc), File(420, EmptyText), File(0, EmptyProfileDoc)}
  /\ clusterFile = NoFile
  /\ iniFile = [exists |-> FALSE, ok |-> FALSE]
  /\ last = NoOp
  /\ savedProfiles = Unsaved
  /\ savedClusters = Unsaved
  /\ nOps = 0
  /\ input = NotUsed
  /\ output = NotUsed
  /\ proc = [p \in Procs |-> Idle]

\* ioutil.ReadFile, yaml.Unmarshal and the change of the map in memory; early
\* and after record where the other process was at the time of the read
RaceRead(p) ==
  /\ proc[p].pc = "start"
  /\ \E name \in Names, in \in ProfileInputs :
       \E r \in {ProfileMapAfterSave(name, in[1], in[2], profileFile)} :
         proc' = [proc EXCEPT ![p] =
                    [pc |-> IF r.err THEN "failed" ELSE "read",
                     name |-> name, val |-> in, m |-> r.m,
                     early |-> proc[Other(p)].pc \in {"start", "read"},
                     after |-> proc[Other(p)].pc = "done",
                     rank |-> 0]]
  /\ UNCHANGED <<profileFile, clusterFile, iniFile, last, savedProfiles, savedClusters,
                 nOps, input, output>>

\* saveToFile up to the opening of the file: os.Chmod to 0600, and
\* O_TRUNC cuts the file to length zero
RaceOpen(p) ==
  /\ proc[p].pc = "read"
  /\ profileFile' = File(configFileMode, EmptyText)
  /\ proc' = [proc EXCEPT ![p].pc = "opened"]
  /\ UNCHANGED <<clusterFile, iniFile, last, savedProfiles, savedClusters, nOps,
                 input, output>>

\* the bytes of yaml.Marshal(config) reach the file; rank counts the writes
RaceWrite(p) ==
  /\ proc[p].pc = "opened"
  /\ profileFile' = File(configFileMode, Marshal(proc[p].m))
  /\ proc' = [proc EXCEPT ![p].pc = "done",
                          ![p].rank = IF proc[Other(p)].pc = "done" THEN 2 ELSE 1]
  /\ UNCHANGED <<clusterFile, iniFile, last, savedProfiles, savedClusters, nOps,
                 input, output>>

NextRace == \E p \in Procs : RaceRead(p) \/ RaceOpen(p) \/ RaceWrite(p)

SpecRace == InitRace /\ [][NextRace]_vars

(***************************************************************************)
(* C24: read-modify-write is not protected against interleaving: when two  *)
(* saves on the same document with different entry names both read the     *)
(* document before either writes it, the final document holds only the     *)
(* last writer's entry and the first writer's entry is lost; when the two  *)
(* saves run one after the other, both entries are present.                *)
(***************************************************************************)
\* both processes have written, under different names
BothSaved ==
  /\ \A p \in Procs : proc[p].pc = "done"
  /\ proc[1].name # proc[2].name

\* the entries of the document as it is stored
StoredProfiles == Get(Unmarshal(profileFile.text).m, "ecs_profiles")

\* the document holds the entry that process p saved
HoldsEntryOf(p) ==
  /\ StoredProfiles.t = "map"
  /\ GoString(proc[p].name) \in DOMAIN StoredProfiles.m
  /\ StoredProfiles.m[GoString(proc[p].name)] = NewProfile(proc[p].val[1], proc[p].val[2])

\* the document holds no entry under the name process p saved
LostEntryOf(p) ==
  /\ StoredProfiles.t = "map"
  /\ GoString(proc[p].name) \notin DOMAIN StoredProfiles.m

====
